---- MODULE Spec2Model ----
(***************************************************************************)
(* Model of the multiple-tau correlator engine Correlator_Likh             *)
(* (src/multiTauCorrelator/correlator_likh.cc): setsize, initialize, add   *)
(* with its decimation cascade, and evaluate.                              *)
(*                                                                         *)
(* Numbers.  A C++ double is modelled as a pair <<n, d>>: the exact        *)
(* rational n/d in lowest terms when d > 0, and the IEEE specials when     *)
(* d = 0 (<<1,0>> = +inf, <<-1,0>> = -inf, <<0,0>> = NaN).  Rounding is    *)
(* not modelled.  Sample values are carried in units of 1E10 (products in  *)
(* units of 1E20): add and evaluate are homogeneous in the samples, and    *)
(* the only absolute magnitudes in the code are the sentinel -2E10 and the *)
(* validity threshold -1e10, which are -2 and -1 in that unit.  The sample *)
(* 1 of the model is therefore the double 1E10, and -2 is the double       *)
(* -2E10.                                                                  *)
(***************************************************************************)
EXTENDS Integers, Sequences, FiniteSets, TLC

\* ---------------------------------------------------------------- bounds
MaxLevels == 3      \* numcorrelators ranges over 1..MaxLevels
MaxP == 2           \* p ranges over 1..MaxP
MaxM == 2           \* m ranges over 1..MaxM
MaxAdds == 4        \* top-level add calls between two initialize calls
MaxLevelAdds == 3   \* the same where add is also called at explicit levels
MaxDirect == 1      \* of which calls add(w, k) with k > 0
ExtraAdds == 2      \* constant-signal samples beyond p * m^(numcorrelators-1)

\* doubles passed to add, in units of 1E10: -2 is at the sentinel (not above
\* the validity threshold), 1 and 2 are ordinary samples
Samples == {<<-2, 1>>, <<1, 1>>, <<2, 1>>}

\* doubles passed to add together with an explicit level
DirectSamples == {<<-2, 1>>, <<1, 1>>}

\* contents of memory that setsize allocates and does not initialize
Garbage == {0, 1}

\* ------------------------------------------------------- double arithmetic
Abs(x) == IF x < 0 THEN -x ELSE x

Sign(x) == IF x < 0 THEN -1 ELSE IF x > 0 THEN 1 ELSE 0

RECURSIVE GCD(_, _)
GCD(a, b) == IF b = 0 THEN a ELSE GCD(b, a % b)

\* the rational n/d (d > 0) in lowest terms
Norm(n, d) == LET g == GCD(Abs(n), d) IN <<n \div g, d \div g>>

D(i) == <<i, 1>>

NaN == <<0, 0>>

IsFinite(a) == a[2] # 0

DNeg(a) == <<-a[1], a[2]>>

DAdd(a, b) ==
  IF IsFinite(a) /\ IsFinite(b) THEN Norm(a[1] * b[2] + b[1] * a[2], a[2] * b[2])
  ELSE IF IsFinite(b) THEN a
  ELSE IF IsFinite(a) THEN b
  ELSE IF a = b THEN a ELSE NaN

DSub(a, b) == DAdd(a, DNeg(b))

DMul(a, b) ==
  IF IsFinite(a) /\ IsFinite(b) THEN Norm(a[1] * b[1], a[2] * b[2])
  ELSE <<Sign(a[1]) * Sign(b[1]), 0>>

\* double divided by an unsigned count converted to double
DDivN(a, n) ==
  IF ~IsFinite(a) THEN a
  ELSE IF n = 0 THEN <<Sign(a[1]), 0>>
  ELSE Norm(a[1], a[2] * n)

\* a > b on doubles (false when either is NaN)
DGt(a, b) ==
  IF a = NaN \/ b = NaN THEN FALSE
  ELSE IF IsFinite(a) /\ IsFinite(b) THEN a[1] * b[2] > b[1] * a[2]
  ELSE IF IsFinite(a) THEN b[1] < 0
  ELSE IF IsFinite(b) THEN a[1] > 0
  ELSE a[1] > b[1]

RECURSIVE Pow(_, _)
Pow(b, e) == IF e = 0 THEN 1 ELSE b * Pow(b, e - 1)

\* TRUE of every value.  A loop tests it on its state at each iteration, so that
\* the state is computed there and p iterations do not nest p deferred updates.
Forced(x) == x = x

\* ------------------------------------------------------------------ state
VARIABLES
  numcorrelators, p, m, d_min, length,       \* configuration (setsize)
  shift, correlation, ncorrelation,          \* per level, per lag index
  accumulator, naccumulator, insertindex,    \* per level
  kmax, accval,                              \* engine-wide scalars
  t, f, npcorr,                              \* outputs of evaluate
  ready,    \* history: initialize() has been called
  fault,    \* history: a call has accessed memory outside the arrays
  call,     \* history: the last top-level call
  xs,       \* history: the values passed to add(value, 0) since initialize
  direct,   \* history: number of top-level add(value, k), k > 0, since initialize
  fed,      \* history: per level, the values written into shift since initialize
  visited   \* history: the levels add was entered with during the last add call

config == <<numcorrelators, p, m, d_min, length>>

accum == <<shift, correlation, ncorrelation, accumulator, naccumulator,
           insertindex, kmax, accval>>

output == <<t, f, npcorr>>

history == <<ready, fault, call, xs, direct, fed, visited>>

vars == <<config, accum, output, history>>

Levels == 0 .. numcorrelators - 1

Lags == 0 .. p - 1

\* the object the member functions work on, with the history its member
\* functions write: fed, visited and fault
Eng ==
  [shift |-> shift, correlation |-> correlation, ncorrelation |-> ncorrelation,
   accumulator |-> accumulator, naccumulator |-> naccumulator,
   insertindex |-> insertindex, kmax |-> kmax, accval |-> accval,
   t |-> t, f |-> f, npcorr |-> npcorr, fed |-> fed, visited |-> visited,
   fault |-> fault]

\* the object's state becomes e
Becomes(e) ==
  /\ shift' = e.shift
  /\ correlation' = e.correlation
  /\ ncorrelation' = e.ncorrelation
  /\ accumulator' = e.accumulator
  /\ naccumulator' = e.naccumulator
  /\ insertindex' = e.insertindex
  /\ kmax' = e.kmax
  /\ accval' = e.accval
  /\ t' = e.t
  /\ f' = e.f
  /\ npcorr' = e.npcorr
  /\ fed' = e.fed
  /\ visited' = e.visited
  /\ fault' = e.fault

\* unfilled-slot sentinel -2E10 and validity threshold -1e10, in units of 1E10
Sentinel == <<-2, 1>>

Threshold == <<-1, 1>>

NoCall == [op |-> "none", level |-> 0, norm |-> FALSE, reuse |-> FALSE]

\* ------------------------------------------------------------- setsize
\* Correlator_Likh(numcorrin, p_in, m_in): the arrays are allocated and hold
\* indeterminate values until initialize()
setsize(numcorrin, p_in, m_in, g) ==
  /\ numcorrelators = numcorrin
  /\ p = p_in
  /\ m = m_in
  /\ d_min = p_in \div m_in
  /\ length = numcorrin * p_in
  /\ shift = [j \in 0 .. numcorrin - 1 |-> [i \in 0 .. p_in - 1 |-> D(g)]]
  /\ correlation = [j \in 0 .. numcorrin - 1 |-> [i \in 0 .. p_in - 1 |-> D(g)]]
  /\ ncorrelation = [j \in 0 .. numcorrin - 1 |-> [i \in 0 .. p_in - 1 |-> g]]
  /\ accumulator = [j \in 0 .. numcorrin - 1 |-> D(g)]
  /\ naccumulator = [j \in 0 .. numcorrin - 1 |-> g]
  /\ insertindex = [j \in 0 .. numcorrin - 1 |-> g]
  /\ t = [i \in 0 .. numcorrin * p_in - 1 |-> D(g)]
  /\ f = [i \in 0 .. numcorrin * p_in - 1 |-> D(g)]
  /\ npcorr = g
  /\ kmax = g
  /\ accval = D(g)

NoHistory ==
  /\ ready = FALSE
  /\ fault = FALSE
  /\ call = NoCall
  /\ xs = <<>>
  /\ direct = 0
  /\ fed = [j \in Levels |-> <<>>]
  /\ visited = <<>>

Init ==
  /\ \E numcorrin \in 1 .. MaxLevels, p_in \in 1 .. MaxP, m_in \in 1 .. MaxM,
        g \in Garbage : setsize(numcorrin, p_in, m_in, g)
  /\ NoHistory

\* mutant: initialize() leaves kmax as it was
initialize_keepkmax ==
  [shift |-> [j \in Levels |-> [i \in Lags |-> Sentinel]],
   correlation |-> [j \in Levels |-> [i \in Lags |-> D(0)]],
   ncorrelation |-> [j \in Levels |-> [i \in Lags |-> 0]],
   accumulator |-> [j \in Levels |-> D(0)],
   naccumulator |-> [j \in Levels |-> 0],
   insertindex |-> [j \in Levels |-> 0],
   t |-> [i \in 0 .. length - 1 |-> D(0)],
   f |-> [i \in 0 .. length - 1 |-> D(0)],
   npcorr |-> 0,
   kmax |-> kmax,
   accval |-> D(0),
   fed |-> [j \in Levels |-> <<>>],
   visited |-> <<>>,
   fault |-> FALSE]

\* ------------------------------------------------------------ initialize
\* the state initialize() leaves
initialize ==
  [shift |-> [j \in Levels |-> [i \in Lags |-> Sentinel]],
   correlation |-> [j \in Levels |-> [i \in Lags |-> D(0)]],
   ncorrelation |-> [j \in Levels |-> [i \in Lags |-> 0]],
   accumulator |-> [j \in Levels |-> D(0)],
   naccumulator |-> [j \in Levels |-> 0],
   insertindex |-> [j \in Levels |-> 0],
   t |-> [i \in 0 .. length - 1 |-> D(0)],
   f |-> [i \in 0 .. length - 1 |-> D(0)],
   npcorr |-> 0,
   kmax |-> 0,
   accval |-> D(0),
   fed |-> [j \in Levels |-> <<>>],
   visited |-> <<>>,
   fault |-> FALSE]

\* a call initialize(); call.reuse records that the object had been initialized
\* and used before
Initialize ==
  /\ ~fault
  /\ Becomes(initialize)
  /\ ready' = TRUE
  /\ call' = [op |-> "initialize", level |-> 0, norm |-> FALSE,
              reuse |-> ready /\ Eng # initialize]
  /\ xs' = <<>>
  /\ direct' = 0
  /\ UNCHANGED config

\* ------------------------------------------------------------------- add
\* "If we exceed the correlator side, the value is discarded"
Dropped(k) == k = numcorrelators

\* mutant: kmax is the level of the last insertion, not the highest
TrackKmax_last(e, k) == [e EXCEPT !.kmax = k]

\* if (k > kmax) kmax = k;
TrackKmax(e, k) == IF k > e.kmax THEN [e EXCEPT !.kmax = k] ELSE e

\* history: an index lies outside the array it is used on
Outside(e) == [e EXCEPT !.fault = TRUE]

\* shift[k][insertindex[k]] = w;   (fed records the write)
Insert(e, w, k) ==
  IF k \in Levels /\ e.insertindex[k] \in Lags
  THEN [e EXCEPT !.shift[k][e.insertindex[k]] = w, !.fed[k] = Append(@, w)]
  ELSE Outside(e)

\* mutant: the values of every level are added to accval
AddToAverage_all(e, w, k) == [e EXCEPT !.accval = DAdd(@, w)]

\* if (k == 0) accval += w;
AddToAverage(e, w, k) == IF k = 0 THEN [e EXCEPT !.accval = DAdd(@, w)] ELSE e

\* accumulator[k] += w; ++naccumulator[k];
Accumulate(e, w, k) ==
  [e EXCEPT !.accumulator[k] = DAdd(@, w), !.naccumulator[k] = @ + 1]

\* mutant: the block is handed on one sample late
BlockFull_late(e, k) == e.naccumulator[k] = m + 1

\* if (naccumulator[k] == m)
BlockFull(e, k) == e.naccumulator[k] = m

\* mutant: the sum of the block is handed on, not its average
BlockAverage_sum(e, k) == e.accumulator[k]

\* accumulator[k] / m, the value handed to level k + 1
BlockAverage(e, k) == DDivN(e.accumulator[k], m)

\* mutant: the running sum of the samples is cleared with the block
ResetAccumulator_accval(e, k) ==
  [e EXCEPT !.accumulator[k] = D(0), !.naccumulator[k] = 0, !.accval = D(0)]

\* mutant: the block sum is cleared but not the block count
ResetAccumulator_sumonly(e, k) == [e EXCEPT !.accumulator[k] = D(0)]

\* accumulator[k] = 0; naccumulator[k] = 0;
ResetAccumulator(e, k) ==
  [e EXCEPT !.accumulator[k] = D(0), !.naccumulator[k] = 0]

\* mutant: every slot counts, written or not
Valid_any(x) == TRUE

\* shift[k][ind2] > -1e10
Valid(x) == DGt(x, Threshold)

\* if (valid) { correlation[k][j] += shift[k][ind1] * shift[k][ind2]; ++ncorrelation[k][j]; }
AddProduct(e, k, j, ind1, ind2) ==
  IF k \in Levels /\ j \in Lags /\ ind1 \in Lags /\ ind2 \in Lags
  THEN IF Valid(e.shift[k][ind2])
       THEN [e EXCEPT !.correlation[k][j] = DAdd(@, DMul(e.shift[k][ind1], e.shift[k][ind2])),
                      !.ncorrelation[k][j] = @ + 1]
       ELSE e
  ELSE Outside(e)

\* mutant: the backward walk does not wrap
Wrap_none(ind2) == ind2

\* if (ind2 < 0) ind2 += p;
Wrap(ind2) == IF ind2 < 0 THEN ind2 + p ELSE ind2

\* level 0: for (j = 0; j < p; ++j) { test; --ind2; if (ind2 < 0) ind2 += p; }
RECURSIVE CorrelateFirst(_, _, _, _, _)
CorrelateFirst(e, k, ind1, j, ind2) ==
  IF j >= p THEN e
  ELSE LET e1 == AddProduct(e, k, j, ind1, ind2)
       IN IF Forced(e1) THEN CorrelateFirst(e1, k, ind1, j + 1, Wrap(ind2 - 1)) ELSE e1

\* level > 0: for (j = d_min; j < p; ++j) { if (ind2 < 0) ind2 += p; test; --ind2; }
RECURSIVE CorrelateNext(_, _, _, _, _)
CorrelateNext(e, k, ind1, j, ind2) ==
  IF j >= p THEN e
  ELSE LET e1 == AddProduct(e, k, j, ind1, Wrap(ind2))
       IN IF Forced(e1) THEN CorrelateNext(e1, k, ind1, j + 1, Wrap(ind2) - 1) ELSE e1

\* "Calculate correlation function"
Correlate(e, k) ==
  LET ind1 == e.insertindex[k] IN
  IF k = 0 THEN CorrelateFirst(e, k, ind1, 0, ind1)
  ELSE CorrelateNext(e, k, ind1, d_min, ind1 - d_min)

\* mutant: the write position is advanced without the wrap
Advance_nowrap(e, k) == [e EXCEPT !.insertindex[k] = @ + 1]

\* ++insertindex[k]; if (insertindex[k] == p) insertindex[k] = 0;
Advance(e, k) ==
  [e EXCEPT !.insertindex[k] = IF @ + 1 = p THEN 0 ELSE @ + 1]

\* add(w, k) for k <= numcorrelators, with its recursive call into level k + 1
RECURSIVE add(_, _, _)

\* history: add is entered with level k
Enter(e, k) == [e EXCEPT !.visited = Append(@, k)]

\* the body of add below the drop test
Inserted(e, w, k) ==
  LET e1 == Accumulate(AddToAverage(Insert(TrackKmax(e, k), w, k), w, k), w, k)
      e2 == IF BlockFull(e1, k)
            THEN ResetAccumulator(add(e1, BlockAverage(e1, k), k + 1), k)
            ELSE e1
  IN Advance(Correlate(e2, k), k)

\* mutant: kmax is tracked before the drop test
add_kmaxfirst(e, w, k) ==
  IF Dropped(k) THEN TrackKmax(Enter(e, k), k) ELSE Inserted(Enter(e, k), w, k)

add(e, w, k) == IF Dropped(k) THEN Enter(e, k) ELSE Inserted(Enter(e, k), w, k)

\* add(w, k) with k > numcorrelators passes the test of line 98, sets kmax and
\* then indexes shift, accumulator, ... at k, beyond the arrays: the call may
\* stop the process, may return having touched nothing of the engine but kmax,
\* or may return having overwritten a word of the engine (here accval)
AddBeyond(w, k) ==
  /\ fault' = TRUE
  /\ visited' = <<k>>
  /\ \E outcome \in {"crash", "stray", "clobber"} :
       /\ kmax' = IF k > kmax THEN k ELSE kmax
       /\ accval' = IF outcome = "clobber" THEN w ELSE accval
  /\ UNCHANGED <<shift, correlation, ncorrelation, accumulator, naccumulator,
                 insertindex, output, fed>>

\* a top-level call add(w, k)
Add(w, k) ==
  /\ ready /\ ~fault
  /\ IF k > numcorrelators
     THEN AddBeyond(w, k)
     ELSE Becomes(add([Eng EXCEPT !.visited = <<>>], w, k))
  /\ call' = [op |-> "add", level |-> k, norm |-> FALSE, reuse |-> FALSE]
  /\ xs' = IF k = 0 THEN Append(xs, w) ELSE xs
  /\ direct' = IF k = 0 THEN direct ELSE direct + 1
  /\ UNCHANGED <<config, ready>>

\* add(w), the call the collaborators make once per new sample
AddSample ==
  /\ Len(xs) + direct < MaxAdds
  /\ \E w \in Samples : Add(w, 0)

\* add(w) where add is also called at explicit levels
AddFirst ==
  /\ Len(xs) + direct < MaxLevelAdds
  /\ \E w \in Samples : Add(w, 0)

\* add(w, k) with an explicit level, up to one past the drop level
AddLevel ==
  /\ Len(xs) + direct < MaxLevelAdds
  /\ direct < MaxDirect
  /\ \E w \in DirectSamples, k \in 1 .. numcorrelators + 1 : Add(w, k)

\* the number of samples the constant-signal scenario asks for
FullDepth == p * Pow(m, numcorrelators - 1)

\* add(c) with the same value c on every call since initialize
AddConstant ==
  /\ Len(xs) < FullDepth + ExtraAdds
  /\ \E w \in (IF xs = <<>> THEN Samples ELSE {xs[1]}) : Add(w, 0)

\* -------------------------------------------------------------- evaluate
\* if (norm) aux = (accval / ncorrelation[0][0]) * (accval / ncorrelation[0][0]);
MeanSquare(e, norm) ==
  IF norm
  THEN DMul(DDivN(e.accval, e.ncorrelation[0][0]), DDivN(e.accval, e.ncorrelation[0][0]))
  ELSE D(0)

\* mutant: the sum is normalised in place before it is copied to f
Emit_inplace(o, aux, k, i, lag) ==
  IF o.e.ncorrelation[k][i] > 0
  THEN LET q == DDivN(o.e.correlation[k][i], o.e.ncorrelation[k][i]) IN
       [e |-> [o.e EXCEPT !.correlation[k][i] = q,
                          !.t[o.im] = lag,
                          !.f[o.im] = DSub(q, aux)],
        im |-> o.im + 1]
  ELSE o

\* history: t[im] and f[im] are written inside the arrays of length elements
Stored(o) == IF o.im \in 0 .. length - 1 THEN o.e ELSE Outside(o.e)

\* if (ncorrelation[k][i] > 0) { t[im] = lag; f[im] = ... - aux; ++im; }
\* on o = [e |-> the object, im |-> the local im]
Emit(o, aux, k, i, lag) ==
  IF ~(k \in Levels /\ i \in Lags) THEN [o EXCEPT !.e = Outside(@)]
  ELSE IF o.e.ncorrelation[k][i] > 0
  THEN [e |-> [Stored(o) EXCEPT !.t[o.im] = lag,
                                !.f[o.im] = DSub(DDivN(o.e.correlation[k][i],
                                                       o.e.ncorrelation[k][i]), aux)],
        im |-> o.im + 1]
  ELSE o

\* "First correlator": for (i = 0; i < p; ++i), lag i
RECURSIVE EvaluateFirst(_, _, _)
EvaluateFirst(o, aux, i) ==
  IF i >= p THEN o
  ELSE LET o1 == Emit(o, aux, 0, i, D(i))
       IN IF Forced(o1) THEN EvaluateFirst(o1, aux, i + 1) ELSE o1

\* mutant: the lags of level k are scaled with the block size of level k - 1
RECURSIVE EvaluateLevel_prevscale(_, _, _, _)
EvaluateLevel_prevscale(o, aux, k, i) ==
  IF i >= p THEN o
  ELSE LET o1 == Emit(o, aux, k, i, D(i * Pow(m, k - 1)))
       IN IF Forced(o1) THEN EvaluateLevel_prevscale(o1, aux, k, i + 1) ELSE o1

\* for (i = d_min; i < p; ++i), lag i * pow(m, k)
RECURSIVE EvaluateLevel(_, _, _, _)
EvaluateLevel(o, aux, k, i) ==
  IF i >= p THEN o
  ELSE LET o1 == Emit(o, aux, k, i, D(i * Pow(m, k)))
       IN IF Forced(o1) THEN EvaluateLevel(o1, aux, k, i + 1) ELSE o1

\* mutant: the loop runs up to and including kmax
LevelEmitted_inclusive(e, k) == k <= e.kmax

\* the loop condition of "Subsequent correlators": k < kmax
LevelEmitted(e, k) == k < e.kmax

\* for (k = 1; k < kmax; ++k)
RECURSIVE EvaluateNext(_, _, _)
EvaluateNext(o, aux, k) ==
  IF ~LevelEmitted(o.e, k) THEN o
  ELSE EvaluateNext(EvaluateLevel(o, aux, k, d_min), aux, k + 1)

\* mutant: npcorr counts on from the value the previous call left
SetCount_onward(o) == [o.e EXCEPT !.npcorr = @ + o.im]

\* npcorr = im;
SetCount(o) == [o.e EXCEPT !.npcorr = o.im]

evaluate(e, norm) ==
  LET aux == MeanSquare(e, norm)
  IN SetCount(EvaluateNext(EvaluateFirst([e |-> e, im |-> 0], aux, 0), aux, 1))

\* a call evaluate(norm)
Evaluate ==
  /\ ready /\ ~fault
  /\ \E norm \in BOOLEAN :
       /\ Becomes(evaluate(Eng, norm))
       /\ call' = [op |-> "evaluate", level |-> 0, norm |-> norm, reuse |-> FALSE]
  /\ UNCHANGED <<config, ready, xs, direct>>

\* ---------------------------------------------------------- specifications
\* the engine as its collaborators drive it: initialize, add(w), evaluate
Next == Initialize \/ AddSample \/ Evaluate

Spec == Init /\ [][Next]_vars

\* the engine with add called at explicit levels as well
NextLevel == Initialize \/ AddFirst \/ AddLevel \/ Evaluate

SpecLevel == Init /\ [][NextLevel]_vars

\* a constant signal: every sample since initialize has the same value
NextConst == Initialize \/ AddConstant \/ Evaluate

SpecConst == Init /\ [][NextConst]_vars

\* a constant signal into the hierarchy p = 16, m = 2 (the defaults of the
\* autocorrelate action)
LagP == 16

LagM == 2

InitLag ==
  /\ \E numcorrin \in 2 .. MaxLevels, g \in Garbage : setsize(numcorrin, LagP, LagM, g)
  /\ NoHistory

SpecLag == InitLag /\ [][NextConst]_vars

\* ----------------------------------------------------------------- claims
\* the lag indices lo .. p-1 of level k whose count is positive, in order
Counted(k, lo) ==
  SelectSeq([n \in 1 .. (p - lo) |-> lo + n - 1], LAMBDA i : ncorrelation[k][i] > 0)

\* the (lag, value) pairs level k contributes from index lo on
PairsOf(k, lo) ==
  LET idx == Counted(k, lo) IN
  [n \in 1 .. Len(idx) |->
     [lag |-> D(idx[n] * Pow(m, k)),
      value |-> DDivN(correlation[k][idx[n]], ncorrelation[k][idx[n]])]]

\* the pairs of levels k, k+1, ..., kmax-1
RECURSIVE PairsFrom(_)
PairsFrom(k) == IF k >= kmax THEN <<>> ELSE PairsOf(k, d_min) \o PairsFrom(k + 1)

ExpectedPairs == PairsOf(0, 0) \o PairsFrom(1)

\* C1: after initialize() and any sequence of add(value, 0), evaluate(false)
\* leaves in t and f exactly the pairs of level 0 (indices 0..p-1 with a positive
\* count, lag i, value correlation/ncorrelation) followed by those of the levels
\* 1 .. kmax-1 in increasing order (indices d_min..p-1 with a positive count, lag
\* i * m^k), and npcorr is the number of pairs.
C1_EvaluateEmits ==
  (call.op = "evaluate" /\ ~call.norm) =>
    /\ npcorr = Len(ExpectedPairs)
    /\ \A n \in 1 .. Len(ExpectedPairs) :
         /\ t[n - 1] = ExpectedPairs[n].lag
         /\ f[n - 1] = ExpectedPairs[n].value

\* C1 witness: an evaluate(false) that emitted pairs of level 0 and of a higher level
C1_Witness ==
  /\ call.op = "evaluate" /\ ~call.norm
  /\ Len(PairsOf(0, 0)) > 0
  /\ npcorr > Len(PairsOf(0, 0))

\* sum over i = from .. Len(x) of x[i] * x[i - j]
RECURSIVE SumProducts(_, _, _)
SumProducts(x, j, from) ==
  IF from > Len(x) THEN D(0)
  ELSE DAdd(DMul(x[from], x[from - j]), SumProducts(x, j, from + 1))

\* C2: after n calls add(x_0), ..., add(x_{n-1}), correlation[0][j] is the sum
\* over i = j .. n-1 of x_i * x_{i-j}, for every lag j in 0..p-1 and every n.
C2_NaiveSum ==
  ready => \A j \in Lags : correlation[0][j] = SumProducts(xs, j, j + 1)

\* the same for signals all of whose samples are above the validity threshold
NaiveSumOfValidSamples ==
  (ready /\ \A i \in 1 .. Len(xs) : Valid(xs[i])) =>
    \A j \in Lags : correlation[0][j] = SumProducts(xs, j, j + 1)

\* C3: after n calls add(value, 0) every level k has received n div m^k
\* insertions: insertindex[k] = (n div m^k) mod p, naccumulator[k] = (n div m^k) mod m.
C3_CascadeTiming ==
  ready =>
    \A k \in Levels :
      LET r == Len(xs) \div Pow(m, k) IN
      /\ Len(fed[k]) = r
      /\ insertindex[k] = r % p
      /\ naccumulator[k] = r % m

\* C3 witness: after exactly m^2 samples (m > 1) level 2 holds one insertion
C3_Witness ==
  /\ ready /\ m > 1 /\ numcorrelators > 2
  /\ Len(xs) = m * m
  /\ Len(fed[2]) = 1
  /\ insertindex[1] = m % p

\* s[a] + ... + s[b]
RECURSIVE SumRange(_, _, _)
SumRange(s, a, b) == IF a > b THEN D(0) ELSE DAdd(s[a], SumRange(s, a + 1, b))

\* C4: the n-th value inserted into level k+1 is the sum of the n-th block of m
\* consecutive values inserted into level k, divided by m; the values of level k
\* not yet in a block are those summed in accumulator[k] and counted in
\* naccumulator[k], so both are zero right after a block has been handed on.
C4_BlockAverage ==
  ready =>
    \A k \in Levels :
      /\ (k + 1 < numcorrelators) =>
           /\ Len(fed[k + 1]) = Len(fed[k]) \div m
           /\ \A n \in 1 .. Len(fed[k + 1]) :
                fed[k + 1][n] = DDivN(SumRange(fed[k], (n - 1) * m + 1, n * m), m)
      /\ LET r == Len(fed[k]) % m IN
           /\ naccumulator[k] = r
           /\ accumulator[k] = SumRange(fed[k], Len(fed[k]) - r + 1, Len(fed[k]))

\* C4 witness: a block of two different values has been averaged into level 1
C4_Witness ==
  /\ ready /\ m > 1 /\ numcorrelators > 1
  /\ Len(fed[1]) > 0
  /\ fed[0][1] # fed[0][2]
  /\ Len(fed[0]) % m = 0
  /\ accumulator[0] = D(0) /\ naccumulator[0] = 0

\* C5: add(value, numcorrelators) changes nothing of the engine, whether it is
\* called from outside or by the cascade out of the deepest level.
C5_DropAtDepth ==
  [][/\ ready => \A w \in Samples :
          add(Eng, w, numcorrelators) = Enter(Eng, numcorrelators)
     /\ (call'.op = "add" /\ call'.level = numcorrelators) =>
          UNCHANGED <<accum, output>>]_vars

\* C5 witness: add(x, 1) has been called on a one-level engine that holds samples
C5_Witness ==
  /\ numcorrelators = 1
  /\ call.op = "add" /\ call.level = 1
  /\ Len(xs) > 0 /\ ncorrelation[0][0] > 0

\* C6: add(value, k) with any k > numcorrelators - 1 changes nothing of the
\* engine and accesses no array.
C6_DropBeyond ==
  [][(call'.op = "add" /\ call'.level > numcorrelators - 1) =>
       (UNCHANGED <<accum, output>> /\ ~fault')]_vars

\* the first lag index a level accumulates
FirstLag(k) == IF k = 0 THEN 0 ELSE d_min

\* evaluate has emitted the lag of index i of level k
Emitted(k, i) == \E n \in 0 .. npcorr - 1 : t[n] = D(i * Pow(m, k))

\* C7: with p = 16, m = 2, after evaluate every level the cascade has reached
\* (0 .. kmax) has its counted lag indices in the output: 0..15 of level 0 as lags
\* 0..15, 8..15 of level 1 as lags 16, 18, ..., 30, 8..15 of level 2 as 32, ..., 60.
C7_LagCoverage ==
  call.op = "evaluate" =>
    \A k \in 0 .. kmax : \A i \in FirstLag(k) .. p - 1 :
      ncorrelation[k][i] > 0 => Emitted(k, i)

\* what evaluate does emit: the counted lags of the levels below kmax, and level 0
LagCoverageBelowKmax ==
  call.op = "evaluate" =>
    \A k \in 0 .. kmax : \A i \in FirstLag(k) .. p - 1 :
      (ncorrelation[k][i] > 0 /\ (k = 0 \/ k < kmax)) => Emitted(k, i)

\* C8: a constant signal c of at least p * m^(numcorrelators-1) samples gives
\* f[i] = c^2 at every index evaluate(false) emitted.
C8_ConstantSignal ==
  (call.op = "evaluate" /\ ~call.norm /\ Len(xs) >= FullDepth) =>
    \A n \in 0 .. npcorr - 1 : f[n] = DMul(xs[1], xs[1])

\* C8 witness: such an evaluation that emitted a level above 0
C8_Witness ==
  /\ call.op = "evaluate" /\ ~call.norm
  /\ Len(xs) >= FullDepth
  /\ npcorr > p

\* C9: a constant signal c of one or more samples gives f[i] = 0 at every index
\* evaluate(true) emitted, the correction being c^2 whenever anything is emitted.
C9_ZeroMean ==
  (call.op = "evaluate" /\ call.norm /\ Len(xs) >= 1) =>
    /\ \A n \in 0 .. npcorr - 1 : f[n] = D(0)
    /\ npcorr > 0 => MeanSquare(Eng, TRUE) = DMul(xs[1], xs[1])

\* C9 witness: a normalised evaluation that emitted a level above 0
C9_Witness ==
  /\ call.op = "evaluate" /\ call.norm
  /\ Len(xs) >= 1
  /\ npcorr > p

\* the engine after add(s[1]), ..., add(s[Len(s)]) from e, without any evaluate
RECURSIVE Replay(_, _)
Replay(e, s) == IF s = <<>> THEN e ELSE Replay(add(e, Head(s), 0), Tail(s))

AccumOf(e) ==
  <<e.shift, e.correlation, e.ncorrelation, e.accumulator, e.naccumulator,
    e.insertindex, e.kmax, e.accval>>

\* C10: evaluate(norm) changes none of shift, correlation, ncorrelation,
\* accumulator, naccumulator, insertindex, kmax, accval: after every call, an
\* evaluate included (which leaves xs as it is), the accumulation state is the one
\* the adds alone produce, however many evaluate calls were made between them.
C10_EvaluateReadsOnly ==
  ready => accum = AccumOf(Replay(initialize, xs))

\* C10 witness: an add made after an evaluate that emitted pairs
C10_Witness ==
  /\ call.op = "add"
  /\ npcorr > 0
  /\ Len(xs) > 1

\* C11: a second evaluate(norm) with the same flag and no add in between returns
\* what the first returned: the same npcorr and the same t[0..npcorr) and
\* f[0..npcorr).
C11_IdempotentEvaluate ==
  call.op = "evaluate" =>
    LET again == evaluate(Eng, call.norm) IN
    /\ again.npcorr = npcorr
    /\ \A i \in 0 .. npcorr - 1 : again.t[i] = t[i] /\ again.f[i] = f[i]

\* C11 witness: an evaluate(true) that emitted pairs of level 0 and of a higher
\* level from samples with a mean other than zero
C11_Witness ==
  /\ call.op = "evaluate" /\ call.norm
  /\ npcorr > p
  /\ accval # D(0)

\* the state the same add calls leave in an engine that was constructed,
\* initialized once and used for nothing else
FreshRun == Replay(initialize, xs)

\* C12: initialize() on an engine in any state leaves npcorr, kmax and accval
\* zero, every shift slot at the sentinel, every correlation, ncorrelation,
\* accumulator, naccumulator and insertindex zero and t and f zeroed; and the
\* calls made after it leave the state, and return the results, they leave and
\* return on a fresh engine.
C12_ReuseAfterInitialize ==
  /\ call.op = "initialize" =>
       /\ npcorr = 0 /\ kmax = 0 /\ accval = D(0)
       /\ \A k \in Levels :
            /\ accumulator[k] = D(0) /\ naccumulator[k] = 0 /\ insertindex[k] = 0
            /\ \A j \in Lags :
                 /\ shift[k][j] = Sentinel
                 /\ correlation[k][j] = D(0)
                 /\ ncorrelation[k][j] = 0
       /\ \A i \in 0 .. length - 1 : t[i] = D(0) /\ f[i] = D(0)
  /\ ready => accum = AccumOf(FreshRun)
  /\ call.op = "evaluate" =>
       LET fresh == evaluate(FreshRun, call.norm) IN
       /\ npcorr = fresh.npcorr
       /\ \A i \in 0 .. npcorr - 1 : t[i] = fresh.t[i] /\ f[i] = fresh.f[i]

\* C12 witness: initialize() has just been called on an engine that had been
\* initialized and used before
C12_Witness ==
  /\ call.op = "initialize" /\ call.reuse
  /\ kmax = 0 /\ npcorr = 0

\* C13: every add(value, 0) returns after a bounded recursion: the levels add is
\* entered with are 0 and then strictly increasing, the nested calls below the
\* top-level one are at most numcorrelators, and on return no level is left with
\* a full block (naccumulator[k] = m).
C13_CascadeTerminates ==
  call.op = "add" =>
    /\ Len(visited) >= 1 /\ visited[1] = 0
    /\ \A i \in 2 .. Len(visited) : visited[i] > visited[i - 1]
    /\ Len(visited) - 1 <= numcorrelators
    /\ \A k \in Levels : naccumulator[k] # m

\* C13 witness: an add whose cascade went through every level of an engine of
\* several levels and ended in the dropped call at level numcorrelators
C13_Witness ==
  /\ call.op = "add"
  /\ numcorrelators > 1
  /\ Len(visited) = numcorrelators + 1
  /\ visited[Len(visited)] = numcorrelators

\* C14: between top-level calls, 0 <= insertindex[k] < p and
\* 0 <= naccumulator[k] < m for every level k, also when p = 1 or m = 1.
C14_IndexRanges ==
  ready => \A k \in Levels :
             /\ insertindex[k] \in 0 .. p - 1
             /\ naccumulator[k] \in 0 .. m - 1

\* C14 witness: samples added to an engine of several levels with p = 1 and
\* m = 1, where every add wraps the write position and completes a block
C14_Witness ==
  /\ p = 1 /\ m = 1
  /\ numcorrelators > 1
  /\ Len(xs) > 1
  /\ call.op = "add"

\* the highest level whose shift buffer has been written since initialize
HighestFed ==
  LET written == {k \in Levels : fed[k] # <<>>} IN
  IF written = {} THEN 0 ELSE CHOOSE k \in written : \A j \in written : j <= k

\* the largest level k <= numcorrelators - 1 with m^k <= n (0 when there is none)
LargestLevel(n) ==
  LET reached == {k \in Levels : Pow(m, k) <= n} IN
  IF reached = {} THEN 0 ELSE CHOOSE k \in reached : \A j \in reached : j <= k

\* C15: after n calls add(value, 0) since initialize, kmax is the highest level
\* that has received an insertion, which is the largest k <= numcorrelators - 1
\* with m^k <= n (0 when n < m), kmax is at most numcorrelators - 1, and no call
\* other than initialize() lowers kmax.
C15_KmaxMonotone ==
  [][/\ ready => /\ kmax = HighestFed
                 /\ kmax = LargestLevel(Len(xs))
                 /\ kmax <= numcorrelators - 1
     /\ (ready /\ call'.op # "initialize") => kmax' >= kmax]_vars

\* C15 witness: kmax has grown to the deepest level of an engine of several
\* levels with m > 1 and a further call has been made
C15_Witness ==
  /\ m > 1 /\ numcorrelators > 2
  /\ kmax = numcorrelators - 1
  /\ call.op = "evaluate"

\* C16: at every level k >= 1 the lags below d_min are never accumulated
\* (correlation[k][j] = 0 and ncorrelation[k][j] = 0 for j < d_min), and for
\* j in d_min..p-1, after the level has received y_0, ..., y_{n-1},
\* correlation[k][j] is the sum over i = j .. n-1 of y_i * y_{i-j}.
C16_UpperLevels ==
  ready => \A k \in Levels \ {0} : \A j \in Lags :
             IF j < d_min
             THEN correlation[k][j] = D(0) /\ ncorrelation[k][j] = 0
             ELSE correlation[k][j] = SumProducts(fed[k], j, j + 1)

\* the same for signals all of whose samples are above the validity threshold
UpperLevelsOfValidSamples ==
  (ready /\ \A i \in 1 .. Len(xs) : Valid(xs[i])) =>
    \A k \in Levels \ {0} : \A j \in Lags :
      IF j < d_min
      THEN correlation[k][j] = D(0) /\ ncorrelation[k][j] = 0
      ELSE correlation[k][j] = SumProducts(fed[k], j, j + 1)

\* the lags level k accumulates
Accumulated(k) == IF k = 0 THEN Lags ELSE d_min .. p - 1

\* C17: every written slot contributes to the counts whatever its value and no
\* unwritten slot does: after n insertions into level k,
\* ncorrelation[k][j] = max(0, n - j) for every lag j the level accumulates, and
\* ncorrelation[0][0] is the number of level-0 samples.
C17_CountsWritten ==
  ready =>
    /\ \A k \in Levels : \A j \in Accumulated(k) :
         ncorrelation[k][j] = IF Len(fed[k]) > j THEN Len(fed[k]) - j ELSE 0
    /\ ncorrelation[0][0] = Len(xs)

\* the same for signals all of whose samples are above the validity threshold
CountsOfValidSamples ==
  (ready /\ \A i \in 1 .. Len(xs) : Valid(xs[i])) =>
    /\ \A k \in Levels : \A j \in Accumulated(k) :
         ncorrelation[k][j] = IF Len(fed[k]) > j THEN Len(fed[k]) - j ELSE 0
    /\ ncorrelation[0][0] = Len(xs)

\* C18: accval is the sum of all the values passed to add(value, 0) since the
\* last initialize(): cascaded insertions and dropped block averages do not add
\* to it, no add or evaluate resets it, and samples older than p stay in it.
C18_RunningSum ==
  ready => accval = SumRange(xs, 1, Len(xs))

\* C18 witness: an evaluate after more than p samples whose blocks have
\* cascaded to a higher level, with a sum other than zero
C18_Witness ==
  /\ call.op = "evaluate"
  /\ Len(xs) > p
  /\ kmax > 0
  /\ accval # D(0)

\* C19: in every sequence of add(value, 0) and evaluate calls no index leaves
\* its array: shift[k], correlation[k] and ncorrelation[k] are accessed with k
\* in [0, numcorrelators) and an index in [0, p), also when d_min = p or
\* d_min = 0, t and f are written below numcorrelators * p, and
\* npcorr <= numcorrelators * p.
C19_IndicesInRange ==
  ready =>
    /\ ~fault
    /\ length = numcorrelators * p
    /\ npcorr <= numcorrelators * p

\* C19 witness: with d_min = 0, an evaluate that emitted pairs of a higher
\* level after the level-0 buffer has wrapped
C19_Witness ==
  /\ d_min = 0
  /\ call.op = "evaluate"
  /\ Len(xs) > p
  /\ npcorr > p

\* C20: when m divides p the lags evaluate writes to t[0..npcorr) are strictly
\* increasing: the first lag of level k + 1, d_min * m^(k+1), is greater than
\* the last lag of level k, (p-1) * m^k, so no lag is emitted twice.
C20_DistinctLags ==
  (ready /\ p % m = 0) =>
    /\ \A k \in Levels : d_min * Pow(m, k + 1) > (p - 1) * Pow(m, k)
    /\ call.op = "evaluate" => \A i \in 1 .. npcorr - 1 : DGt(t[i], t[i - 1])

\* C20 witness: with m > 1 dividing p, an evaluate that emitted the lags of
\* level 0 and of a higher level
C20_Witness ==
  /\ m > 1 /\ p % m = 0
  /\ call.op = "evaluate"
  /\ npcorr > p

====
